---- MODULE Spec2Model ----
(***************************************************************************)
(* Model of the pubmed_fetcher pipeline (core.py, cli.py):                 *)
(*   get_papers_list -> fetch_paper_ids -> fetch_paper_details             *)
(*                   -> save_to_csv | display                              *)
(* Text is modelled as sequences of one-character strings so that          *)
(* lower-casing, substring tests, split, strip and join are computed the   *)
(* way the Python code computes them.                                      *)
(*                                                                         *)
(* An optional XML node is a sequence of length <= 1: <<>> when find()     *)
(* returns None, <<text>> when the node exists.  ElementTree gives an      *)
(* element without character data the text None, never "", so the text     *)
(* <<>> of an existing node stands for None.                               *)
(***************************************************************************)
EXTENDS Integers, Sequences, FiniteSets, TLC

VARIABLES pc, file, paper_ids, papers, searchResp, fetchResp,
          requests, csv, stdout, error

vars == <<pc, file, paper_ids, papers, searchResp, fetchResp,
          requests, csv, stdout, error>>

---------------------------------------------------------------------------
(* Bounds of the explored inputs *)
MaxArticles == 2
MaxAuthors == 2

---------------------------------------------------------------------------
(* Literals of core.py *)
NA == <<"N","/","A">>
KwPharmaceutical == 
  <<"p","h","a","r","m","a","c","e","u","t","i","c","a","l">>
KwBiotech == <<"b","i","o","t","e","c","h">>
KwCompany == <<"c","o","m","p","a","n","y">>
KwCorporation == <<"c","o","r","p","o","r","a","t","i","o","n">>
Corresponding == 
  <<"c","o","r","r","e","s","p","o","n","d","i","n","g">>
Email == <<"e","m","a","i","l">>
EmailColon == <<"e","m","a","i","l",":">>
CommaSpace == <<",", " ">>
Comma == <<",">>
DefaultMaxResults == 10

(* The wording of the data-model section for the email default *)
NotAvailable == 
  <<"n","o","t"," ","a","v","a","i","l","a","b","l","e">>

---------------------------------------------------------------------------
(* Python str operations *)
UpperCase == 
  <<"A","B","C","D","E","F","G","H","I","J","K","L","M","N","O","P","Q",
    "R","S","T","U","V","W","X","Y","Z">>
LowerCase == 
  <<"a","b","c","d","e","f","g","h","i","j","k","l","m","n","o","p","q",
    "r","s","t","u","v","w","x","y","z">>

ToLower ==
  [c \in {UpperCase[i] : i \in 1..Len(UpperCase)} |->
     LowerCase[CHOOSE i \in 1..Len(UpperCase) : UpperCase[i] = c]]

LowerChar(c) == IF c \in DOMAIN ToLower THEN ToLower[c] ELSE c

Lower(s) == [i \in 1..Len(s) |-> LowerChar(s[i])]

(* sub occurs in s at position i *)
OccursAt(s, sub, i) == \A k \in 1..Len(sub) : s[i + k - 1] = sub[k]

(* sub in s *)
Contains(s, sub) == \E i \in 1..(Len(s) - Len(sub) + 1) : OccursAt(s, sub, i)

FirstIndex(s, sub) ==
  CHOOSE i \in 1..(Len(s) - Len(sub) + 1) :
    OccursAt(s, sub, i) /\ \A j \in 1..(i - 1) : ~OccursAt(s, sub, j)

RECURSIVE Split(_, _)
Split(s, sep) ==
  IF ~Contains(s, sep) THEN <<s>>
  ELSE LET i == FirstIndex(s, sep)
       IN <<SubSeq(s, 1, i - 1)>> \o Split(SubSeq(s, i + Len(sep), Len(s)), sep)

Whitespace == {" ", "\t", "\n", "\r"}

RECURSIVE LStrip(_)
LStrip(s) == IF s # <<>> /\ Head(s) \in Whitespace THEN LStrip(Tail(s)) ELSE s

RECURSIVE RStrip(_)
RStrip(s) ==
  IF s # <<>> /\ s[Len(s)] \in Whitespace
  THEN RStrip(SubSeq(s, 1, Len(s) - 1)) ELSE s

Strip(s) == RStrip(LStrip(s))

RECURSIVE Join(_, _)
Join(parts, sep) ==
  IF parts = <<>> THEN <<>>
  ELSE IF Len(parts) = 1 THEN parts[1]
  ELSE parts[1] \o sep \o Join(Tail(parts), sep)

---------------------------------------------------------------------------
(* Affiliation texts and XML fragments the remote document is built from *)
(* "Biotech Corp, Corresponding, Email: jane@x.com" *)
AffBiotech == 
  <<"B","i","o","t","e","c","h"," ","C","o","r","p",","," ","C","o","r",
    "r","e","s","p","o","n","d","i","n","g",","," ","E","m","a","i","l",":",
    " ","j","a","n","e","@","x",".","c","o","m">>
(* "Univ X" *)
AffUniv == <<"U","n","i","v"," ","X">>
(* "Corresponding author, Univ X. Email: K@u.edu " *)
AffUnivCorr == 
  <<"C","o","r","r","e","s","p","o","n","d","i","n","g"," ","a","u","t",
    "h","o","r",","," ","U","n","i","v"," ","X","."," ","E","m","a","i","l",
    ":"," ","K","@","u",".","e","d","u"," ">>
(* "Acme Company, corresponding, email bob@a.co" *)
AffNoColon == 
  <<"A","c","m","e"," ","C","o","m","p","a","n","y",","," ","c","o","r",
    "r","e","s","p","o","n","d","i","n","g",","," ","e","m","a","i","l"," ",
    "b","o","b","@","a",".","c","o">>
(* "XYZ CORPORATION" *)
AffUpper == 
  <<"X","Y","Z"," ","C","O","R","P","O","R","A","T","I","O","N">>
(* "Pharmaceutical Co. Corresponding. email: a@p.co email: b@p.co" *)
AffTwoEmails == 
  <<"P","h","a","r","m","a","c","e","u","t","i","c","a","l"," ","C","o",
    "."," ","C","o","r","r","e","s","p","o","n","d","i","n","g","."," ","e",
    "m","a","i","l",":"," ","a","@","p",".","c","o"," ","e","m","a","i","l",
    ":"," ","b","@","p",".","c","o">>
(* "Univ Y. Email: r@y.edu" *)
AffEmailOnly == 
  <<"U","n","i","v"," ","Y","."," ","E","m","a","i","l",":"," ","r","@",
    "y",".","e","d","u">>

Lee == <<"L", "e", "e">>
Kim == <<"K", "i", "m">>

Author(last, aff) == [LastName |-> last, Affiliation |-> aff]

Authors ==
  { Author(<<Lee>>, <<AffBiotech>>), Author(<<>>, <<AffUpper>>),
    Author(<<Kim>>, <<AffUnivCorr>>), Author(<<Lee>>, <<AffUniv>>),
    Author(<<Kim>>, <<AffNoColon>>),
    Author(<<Lee>>, <<AffTwoEmails>>), Author(<<Kim>>, <<AffEmailOnly>>),
    Author(<<Lee>>, <<>>), Author(<<Kim>>, << <<>> >>) }

SeqsUpTo(S, n) == UNION {[1..k -> S] : k \in 0..n}

Id1 == <<"1">>
Id2 == <<"2">>
TitleT == <<"T">>
Year2020 == <<"2", "0", "2", "0">>

(* One PubmedArticle element: the texts of its PMID descendants in         *)
(* document order, its optional ArticleTitle and PubDate/Year, its Author  *)
(* elements.  Articles vary the authors, BatchArticles the identifiers.    *)
Articles ==
  [PMID : {<<Id1>>}, ArticleTitle : {<<>>, <<TitleT>>},
   Year : {<<Year2020>>}, Authors : SeqsUpTo(Authors, MaxAuthors)]

BatchArticles ==
  [PMID : {<<>>, <<Id1>>, <<Id2, Id1>>}, ArticleTitle : {<<TitleT>>},
   Year : {<<>>, <<Year2020>>},
   Authors : {<<>>, <<Author(<<Lee>>, <<AffBiotech>>)>>}]

(* Documents: any single article, or several articles of the smaller kind *)
Documents ==
  {<<a>> : a \in Articles} \cup SeqsUpTo(BatchArticles, MaxArticles)

---------------------------------------------------------------------------
(* fetch_paper_details: extraction of one Record per article *)
Keywords == {KwPharmaceutical, KwBiotech, KwCompany, KwCorporation}

(* Variant: every affiliation counts as a match *)
KeywordMatchAlways(affiliation_text) == TRUE

(* any(keyword in affiliation_text for keyword in [...]) *)
KeywordMatch(affiliation_text) ==
  \E keyword \in Keywords : Contains(affiliation_text, keyword)

(* Variant: "or" in place of "and" *)
IsCorrespondingEither(affiliation_text) ==
  Contains(affiliation_text, Corresponding) \/ Contains(affiliation_text, Email)

(* "corresponding" in affiliation_text and "email" in affiliation_text *)
IsCorresponding(affiliation_text) ==
  Contains(affiliation_text, Corresponding) /\ Contains(affiliation_text, Email)

(* The locals every article starts from *)
ArticleLocals ==
  [non_academic_authors |-> <<>>, company_affiliations |-> <<>>,
   corresponding_email |-> NA, err |-> "none"]

Raise(acc, exception) == [acc EXCEPT !.err = exception]

(* Variant: the lower-cased text is appended to the company list *)
KeywordBranchLowered(acc, author, text) ==
  IF \E keyword \in Keywords : Contains(Lower(text), keyword)
  THEN [acc EXCEPT
          !.non_academic_authors =
             IF author.LastName # <<>> THEN Append(@, author.LastName[1]) ELSE @,
          !.company_affiliations = Append(@, Lower(text))]
  ELSE acc

(* The keyword branch of the author loop *)
KeywordBranch(acc, author, text) ==
  IF KeywordMatch(Lower(text))
  THEN [acc EXCEPT
          !.non_academic_authors =
             IF author.LastName # <<>> THEN Append(@, author.LastName[1]) ELSE @,
          !.company_affiliations = Append(@, text)]
  ELSE acc

(* Variant: the first corresponding author of an article wins *)
EmailBranchFirstWins(acc, text) ==
  IF Contains(Lower(text), Corresponding) /\ Contains(Lower(text), Email)
  THEN LET parts == Split(Lower(text), EmailColon)
       IN IF Len(parts) < 2 THEN Raise(acc, "IndexError")
          ELSE IF acc.corresponding_email # NA THEN acc
          ELSE [acc EXCEPT !.corresponding_email = Strip(parts[2])]
  ELSE acc

(* The corresponding-author branch of the author loop *)
EmailBranch(acc, text) ==
  IF IsCorresponding(Lower(text))
  THEN LET parts == Split(Lower(text), EmailColon)
       IN IF Len(parts) < 2 THEN Raise(acc, "IndexError")
          ELSE [acc EXCEPT !.corresponding_email = Strip(parts[2])]
  ELSE acc

(* One iteration of "for author in authors" *)
AuthorStep(acc, author) ==
  IF author.Affiliation = <<>> THEN acc
  ELSE LET text == author.Affiliation[1]
       IN IF text = <<>> THEN Raise(acc, "AttributeError")
          ELSE EmailBranch(KeywordBranch(acc, author, text), text)

RECURSIVE AuthorLoop(_, _)
AuthorLoop(acc, authors) ==
  IF authors = <<>> \/ acc.err # "none" THEN acc
  ELSE AuthorLoop(AuthorStep(acc, Head(authors)), Tail(authors))

JoinOrNA(list) == IF list # <<>> THEN Join(list, CommaSpace) ELSE NA

TextOrNA(node) == IF node # <<>> THEN node[1] ELSE NA

NoRecord == [PubmedID |-> <<>>]

(* The body of "for article in root.findall(...)": a Record, or the        *)
(* exception that leaves the function.                                    *)
ParseArticle(article) ==
  IF article.PMID = <<>> THEN [err |-> "AttributeError", rec |-> NoRecord]
  ELSE LET acc == AuthorLoop(ArticleLocals, article.Authors)
       IN IF acc.err # "none" THEN [err |-> acc.err, rec |-> NoRecord]
          ELSE [err |-> "none",
                rec |-> [PubmedID |-> Head(article.PMID),
                         Title |-> TextOrNA(article.ArticleTitle),
                         PublicationDate |-> TextOrNA(article.Year),
                         NonAcademicAuthors |-> JoinOrNA(acc.non_academic_authors),
                         CompanyAffiliations |-> JoinOrNA(acc.company_affiliations),
                         CorrespondingAuthorEmail |-> acc.corresponding_email]]

(* Variant: an article whose identifier is already listed is skipped *)
AppendPaperUnique(ps, rec) ==
  IF \E i \in 1..Len(ps) : ps[i].PubmedID = rec.PubmedID THEN ps
  ELSE Append(ps, rec)

(* papers.append({...}) *)
AppendPaper(ps, rec) == Append(ps, rec)

(* The article loop, in document order; an exception leaves it *)
RECURSIVE ParseArticles(_, _)
ParseArticles(acc, articles) ==
  IF articles = <<>> \/ acc.err # "none" THEN acc
  ELSE LET r == ParseArticle(Head(articles))
       IN ParseArticles(
            IF r.err # "none" THEN [acc EXCEPT !.err = r.err]
            ELSE [acc EXCEPT !.papers = AppendPaper(@, r.rec)],
            Tail(articles))

ParseDocument(doc) == ParseArticles([err |-> "none", papers |-> <<>>], doc)

---------------------------------------------------------------------------
(* Remote endpoints *)
IdLists == {<<>>, <<Id1>>, <<Id2, Id1>>, <<Id1, Id1>>}

(* What requests.get / raise_for_status / json() / ET.fromstring meet *)
SearchResponses ==
  [kind : {"ConnectionError", "HTTPError", "NotJson", "NoEnvelope"},
   idlist : {<<>>}]
  \cup [kind : {"Ok"}, idlist : IdLists]

FetchResponses ==
  [kind : {"ConnectionError", "HTTPError", "NotXml"}, doc : {<<>>}]
  \cup [kind : {"Ok"}, doc : Documents]

NoResponse == [kind |-> "none"]

SearchUrl == "esearch.fcgi"
FetchUrl == "efetch.fcgi"
Query == "cancer"
OutPath == "out.csv"

(* requests.exceptions.RequestException and its subclasses *)
RequestExceptions == {"ConnectionError", "HTTPError", "JSONDecodeError"}

(* The exception a search response raises inside the try block, "none"    *)
(* when the id list is read.  A body that is not JSON raises               *)
(* requests.exceptions.JSONDecodeError (a RequestException) in requests    *)
(* 2.27 and later and a plain ValueError before; the installed version     *)
(* decides.                                                                *)
SearchRaises(resp, newRequests) ==
  CASE resp.kind \in {"ConnectionError", "HTTPError"} -> resp.kind
    [] resp.kind = "NotJson" ->
         IF newRequests THEN "JSONDecodeError" ELSE "ValueError"
    [] resp.kind = "NoEnvelope" -> "KeyError"
    [] OTHER -> "none"

(* Variant: only connection errors are caught *)
CaughtOnlyConnection(exception) == exception = "ConnectionError"

(* except requests.exceptions.RequestException *)
Caught(exception) == exception \in RequestExceptions

(* Variant: the empty-input guard is missing *)
NoIdsNever(ids) == FALSE

(* if not paper_ids *)
NoIds(ids) == ids = <<>>

(* Variant: only the first identifier is sent *)
IdParamFirst(ids) == Head(ids)

(* "id": ",".join(paper_ids) *)
IdParam(ids) == Join(ids, Comma)

(* Variant: the sink writes whatever it is given *)
TruthyAlways(x) == TRUE

(* if papers *)
Truthy(x) == x # <<>>

Columns ==
  <<"PubmedID", "Title", "Publication Date", "Non-academic Author(s)",
    "Company Affiliation(s)", "Corresponding Author Email">>

Row(paper) ==
  <<paper.PubmedID, paper.Title, paper.PublicationDate,
    paper.NonAcademicAuthors, paper.CompanyAffiliations,
    paper.CorrespondingAuthorEmail>>

(* pd.DataFrame(papers).to_csv(filename, index=False) *)
ToCsv(ps) == [header |-> Columns, rows |-> [i \in 1..Len(ps) |-> Row(ps[i])]]

Say(msg) == [msg |-> msg]

(* A file that is at the destination path before the run *)
OldFile == [header |-> <<"old">>, rows |-> <<>>]

---------------------------------------------------------------------------
(* The pipeline *)
Init ==
  /\ pc = "start"
  /\ file \in {<<>>, <<"">>, <<OutPath>>}
  /\ paper_ids = <<>>
  /\ papers = <<>>
  /\ searchResp = NoResponse
  /\ fetchResp = NoResponse
  /\ requests = <<>>
  /\ csv \in {<<>>, <<OldFile>>}
  /\ stdout = <<>>
  /\ error = "none"

(* if file: -- None and "" are both false *)
FileGiven == file # <<>> /\ file[1] # ""

(* get_papers_list up to the call of fetch_paper_ids *)
Begin ==
  /\ pc = "start"
  /\ stdout' = Append(stdout, Say("Fetching papers for query"))
  /\ pc' = "search"
  /\ UNCHANGED <<file, paper_ids, papers, searchResp, fetchResp,
                 requests, csv, error>>

FetchPaperIds ==
  /\ pc = "search"
  /\ \E resp \in SearchResponses, newRequests \in BOOLEAN :
       LET exception == SearchRaises(resp, newRequests)
       IN /\ searchResp' = resp
          /\ requests' = Append(requests,
                 [url |-> SearchUrl, term |-> Query,
                  retmax |-> DefaultMaxResults, retmode |-> "json"])
          /\ IF exception = "none"
             THEN /\ paper_ids' = resp.idlist
                  /\ pc' = "fetch"
                  /\ UNCHANGED <<stdout, error>>
             ELSE IF Caught(exception)
             THEN /\ paper_ids' = <<>>
                  /\ stdout' = Append(stdout, Say("Error fetching paper IDs"))
                  /\ pc' = "fetch"
                  /\ UNCHANGED error
             ELSE /\ pc' = "crashed"
                  /\ error' = exception
                  /\ UNCHANGED <<paper_ids, stdout>>
  /\ UNCHANGED <<file, papers, fetchResp, csv>>

FetchPaperDetails ==
  /\ pc = "fetch"
  /\ IF NoIds(paper_ids)
     THEN /\ stdout' = Append(stdout, Say("No paper IDs provided."))
          /\ papers' = <<>>
          /\ pc' = "sink"
          /\ UNCHANGED <<fetchResp, requests, error>>
     ELSE \E resp \in FetchResponses :
          /\ fetchResp' = resp
          /\ requests' = Append(requests,
                 [url |-> FetchUrl, id |-> IdParam(paper_ids),
                  retmode |-> "xml"])
          /\ IF Caught(resp.kind)
             THEN /\ stdout' = Append(stdout, Say("Error fetching paper details"))
                  /\ papers' = <<>>
                  /\ pc' = "sink"
                  /\ UNCHANGED error
             ELSE IF resp.kind = "NotXml"
             THEN /\ pc' = "crashed"
                  /\ error' = "ParseError"
                  /\ UNCHANGED <<papers, stdout>>
             ELSE LET r == ParseDocument(resp.doc)
                  IN IF r.err = "none"
                     THEN /\ papers' = r.papers
                          /\ pc' = "sink"
                          /\ UNCHANGED <<stdout, error>>
                     ELSE /\ pc' = "crashed"
                          /\ error' = r.err
                          /\ UNCHANGED <<papers, stdout>>
  /\ UNCHANGED <<file, paper_ids, searchResp, csv>>

SaveToCsv ==
  /\ pc = "sink"
  /\ FileGiven
  /\ IF Truthy(papers)
     THEN /\ csv' = <<ToCsv(papers)>>
          /\ stdout' = Append(stdout, Say("Results saved"))
     ELSE /\ stdout' = Append(stdout, Say("No papers to save."))
          /\ UNCHANGED csv
  /\ pc' = "done"
  /\ UNCHANGED <<file, paper_ids, papers, searchResp, fetchResp,
                 requests, error>>

Display ==
  /\ pc = "sink"
  /\ ~FileGiven
  /\ stdout' = stdout \o [i \in 1..Len(papers) |-> Say("paper")]
  /\ pc' = "done"
  /\ UNCHANGED <<file, paper_ids, papers, searchResp, fetchResp,
                 requests, csv, error>>

Next == Begin \/ FetchPaperIds \/ FetchPaperDetails \/ SaveToCsv \/ Display

Spec == Init /\ [][Next]_vars

(* The sink is local code that runs to its end once it is reached; the    *)
(* network calls have no timeout and get no fairness.                     *)
LiveSpec == Spec /\ WF_vars(SaveToCsv \/ Display)

---------------------------------------------------------------------------
(* Vocabulary of the properties *)

(* fetch_paper_details returned the Records of a parsed document *)
Parsed == pc \in {"sink", "done"} /\ fetchResp.kind = "Ok"

Doc == fetchResp.doc

RemoveAt(seq, j) == SubSeq(seq, 1, j - 1) \o SubSeq(seq, j + 1, Len(seq))

HasText(author) == author.Affiliation # <<>> /\ author.Affiliation[1] # <<>>

TextOf(author) == author.Affiliation[1]

(* The affiliation text contains one of the four keywords, case-insensitively *)
HasKeyword(text) ==
  \/ Contains(Lower(text), KwPharmaceutical)
  \/ Contains(Lower(text), KwBiotech)
  \/ Contains(Lower(text), KwCompany)
  \/ Contains(Lower(text), KwCorporation)

(* The affiliation text contains both "corresponding" and "email" *)
Qualifies(text) ==
  Contains(Lower(text), Corresponding) /\ Contains(Lower(text), Email)

IsMatchingAuthor(author) == HasText(author) /\ HasKeyword(TextOf(author))

IsNamedAuthor(author) == author.LastName # <<>>

MatchingAuthors(article) == SelectSeq(article.Authors, IsMatchingAuthor)

QualifyingAuthors(article) ==
  {j \in 1..Len(article.Authors) :
     HasText(article.Authors[j]) /\ Qualifies(TextOf(article.Authors[j]))}

LastOf(S) == CHOOSE j \in S : \A k \in S : k <= j

Listed(list) == IF list = <<>> THEN NA ELSE Join(list, CommaSpace)

EntryCount(field) == IF field = NA THEN 0 ELSE Len(Split(field, CommaSpace))

(* The lower-cased text after the first "email:" *)
AfterFirstEmailColon(text) ==
  LET low == Lower(text)
      i == FirstIndex(low, EmailColon)
  IN SubSeq(low, i + Len(EmailColon), Len(low))

(* ... and up to the next "email:", if there is one *)
UpToNextEmailColon(rest) ==
  IF Contains(rest, EmailColon)
  THEN SubSeq(rest, 1, FirstIndex(rest, EmailColon) - 1)
  ELSE rest

SearchCount ==
  Cardinality({i \in 1..Len(requests) : requests[i].url = SearchUrl})

FetchCount ==
  Cardinality({i \in 1..Len(requests) : requests[i].url = FetchUrl})

Written == csv # <<>> /\ csv # <<OldFile>>

---------------------------------------------------------------------------
(* C1 as stated: whatever failure meets either endpoint -- a transport     *)
(* error, an HTTP error status or an unusable response body -- both        *)
(* functions return an empty sequence and no exception leaves them.  (A    *)
(* body that is not JSON is left out here: what it raises depends on the   *)
(* installed requests.)                                                    *)
C1_AnyFailureReturnsEmpty ==
  /\ searchResp.kind \in {"ConnectionError", "HTTPError", "NoEnvelope"}
       => pc # "crashed" /\ paper_ids = <<>> /\ papers = <<>>
  /\ fetchResp.kind \in {"ConnectionError", "HTTPError", "NotXml"}
       => pc # "crashed" /\ papers = <<>>

(* C1, amended: after a transport error or an HTTP error status at either  *)
(* endpoint the function returns an empty sequence, no exception leaves    *)
(* it, and the run ends with an empty record set and no error.             *)
C1_TransportOrHttpFailureReturnsEmpty ==
  /\ searchResp.kind \in {"ConnectionError", "HTTPError"}
       => /\ pc \in {"fetch", "sink", "done"}
          /\ error = "none"
          /\ paper_ids = <<>>
          /\ papers = <<>>
  /\ fetchResp.kind \in {"ConnectionError", "HTTPError"}
       => /\ pc \in {"sink", "done"}
          /\ error = "none"
          /\ papers = <<>>

C1_Witness ==
  /\ pc = "done"
  /\ fetchResp.kind = "HTTPError"
  /\ papers = <<>>
  /\ stdout[Len(stdout) - 1].msg = "Error fetching paper details"

(* C2: when the search step yields no identifier (an empty id list or a    *)
(* caught search failure), no request is ever sent to the fetch endpoint   *)
(* and the record set is empty.                                            *)
C2_NoIdsNoFetch ==
  (pc \in {"fetch", "sink", "done"} /\ paper_ids = <<>>)
    => /\ FetchCount = 0
       /\ fetchResp = NoResponse
       /\ papers = <<>>

C2_Witness ==
  /\ pc = "done"
  /\ searchResp.kind = "Ok"
  /\ paper_ids = <<>>
  /\ Len(requests) = 1

(* C3: save_to_csv with an empty Record list logs a notice and leaves the  *)
(* destination as it was; with an output path given the file is written    *)
(* exactly when the record set is non-empty, and then it holds one row per *)
(* Record, in list order.                                                  *)
C3_FileWrittenIffRecords ==
  /\ Written =>
       /\ pc = "done" /\ FileGiven /\ papers # <<>>
       /\ csv[1].header = Columns
       /\ Len(csv[1].rows) = Len(papers)
       /\ \A i \in 1..Len(papers) :
            csv[1].rows[i] =
              <<papers[i].PubmedID, papers[i].Title, papers[i].PublicationDate,
                papers[i].NonAcademicAuthors, papers[i].CompanyAffiliations,
                papers[i].CorrespondingAuthorEmail>>
  /\ (pc = "done" /\ FileGiven /\ papers # <<>>) => Written
  /\ (pc = "done" /\ FileGiven /\ papers = <<>>) =>
       stdout[Len(stdout)].msg = "No papers to save."

C3_Witness ==
  /\ pc = "done"
  /\ FileGiven
  /\ papers = <<>>
  /\ csv = <<OldFile>>
  /\ stdout[Len(stdout)].msg = "No papers to save."

(* C4 as stated: an author whose affiliation text contains none of the     *)
(* four keywords leaves the Record as it would be without that author.     *)
C4_NoKeywordAuthorIgnored ==
  Parsed =>
    \A i \in 1..Len(Doc) : \A j \in 1..Len(Doc[i].Authors) :
      LET author == Doc[i].Authors[j]
      IN (HasText(author) /\ ~HasKeyword(TextOf(author)))
           => papers[i] =
                ParseArticle([Doc[i] EXCEPT !.Authors = RemoveAt(@, j)]).rec

(* C4, amended: an author whose affiliation text contains none of the four *)
(* keywords and does not contain both "corresponding" and "email" leaves   *)
(* the Record as it would be without that author.                          *)
C4_PlainAuthorIgnored ==
  Parsed =>
    \A i \in 1..Len(Doc) : \A j \in 1..Len(Doc[i].Authors) :
      LET author == Doc[i].Authors[j]
      IN (HasText(author) /\ ~HasKeyword(TextOf(author))
            /\ ~Qualifies(TextOf(author)))
           => papers[i] =
                ParseArticle([Doc[i] EXCEPT !.Authors = RemoveAt(@, j)]).rec

C4_Witness ==
  /\ Parsed
  /\ \E i \in 1..Len(Doc) : \E j \in 1..Len(Doc[i].Authors) :
       /\ HasText(Doc[i].Authors[j])
       /\ ~HasKeyword(TextOf(Doc[i].Authors[j]))
       /\ ~Qualifies(TextOf(Doc[i].Authors[j]))
       /\ papers[i].CompanyAffiliations # NA
       /\ papers[i].CorrespondingAuthorEmail # NA

(* C5 as stated: every author whose affiliation text contains a keyword    *)
(* adds one entry to each list -- the last name to the non-academic list,  *)
(* the original-case affiliation text to the company list.                 *)
C5_OneEntryPerMatchInBothLists ==
  Parsed =>
    \A i \in 1..Len(Doc) :
      LET m == MatchingAuthors(Doc[i])
      IN /\ EntryCount(papers[i].NonAcademicAuthors) = Len(m)
         /\ papers[i].CompanyAffiliations =
              Listed([k \in 1..Len(m) |-> TextOf(m[k])])

(* C5, amended: every author whose affiliation text contains a keyword     *)
(* adds the original-case affiliation text to the company list, and adds   *)
(* the last name to the non-academic list when the author has a LastName   *)
(* node; both lists are in author order.                                   *)
C5_MatchesListedInOrder ==
  Parsed =>
    \A i \in 1..Len(Doc) :
      LET m == MatchingAuthors(Doc[i])
          named == SelectSeq(m, IsNamedAuthor)
      IN /\ papers[i].NonAcademicAuthors =
              Listed([k \in 1..Len(named) |-> named[k].LastName[1]])
         /\ papers[i].CompanyAffiliations =
              Listed([k \in 1..Len(m) |-> TextOf(m[k])])

C5_Witness ==
  /\ Parsed
  /\ \E i \in 1..Len(Doc) :
       /\ Len(MatchingAuthors(Doc[i])) = 2
       /\ Len(SelectSeq(MatchingAuthors(Doc[i]), IsNamedAuthor)) = 1
       /\ papers[i].NonAcademicAuthors = Lee
       /\ papers[i].CompanyAffiliations = AffUpper \o CommaSpace \o AffBiotech

(* C6 as stated: when no author of the article has an affiliation with     *)
(* both "corresponding" and "email", the email field is "not available".   *)
C6_DefaultEmailNotAvailable ==
  Parsed =>
    \A i \in 1..Len(Doc) :
      QualifyingAuthors(Doc[i]) = {}
        => papers[i].CorrespondingAuthorEmail = NotAvailable

(* C6, amended: when no author of the article has an affiliation with both *)
(* "corresponding" and "email", the email field is "N/A".                  *)
C6_DefaultEmailNA ==
  Parsed =>
    \A i \in 1..Len(Doc) :
      QualifyingAuthors(Doc[i]) = {}
        => papers[i].CorrespondingAuthorEmail = NA

C6_Witness ==
  /\ Parsed
  /\ \E i \in 1..Len(Doc) :
       /\ QualifyingAuthors(Doc[i]) = {}
       /\ \E j \in 1..Len(Doc[i].Authors) :
            /\ HasText(Doc[i].Authors[j])
            /\ Contains(Lower(TextOf(Doc[i].Authors[j])), EmailColon)
       /\ papers[i].CorrespondingAuthorEmail = NA

(* C7: when fetch_paper_details returns from a parsed document, there is   *)
(* one Record per PubmedArticle element, in document order, the i-th       *)
(* carrying the first PMID of the i-th article, whatever the order and     *)
(* multiplicity of the identifiers asked for.                              *)
C7_OneRecordPerArticleInOrder ==
  Parsed =>
    /\ Len(papers) = Len(Doc)
    /\ \A i \in 1..Len(Doc) : papers[i].PubmedID = Doc[i].PMID[1]

C7_Witness ==
  /\ Parsed
  /\ paper_ids = <<Id1, Id1>>
  /\ Len(papers) = 2
  /\ papers[1].PubmedID = Id2
  /\ papers[2].PubmedID = Id1

(* C8 as stated: for every article whose nodes are otherwise well-formed,  *)
(* extraction completes, and a corresponding author's email is the whole   *)
(* text after the first "email:", stripped -- also when "email" has no     *)
(* colon and when "email:" occurs more than once.                          *)
C8_EmailIsWholeTextAfterFirstColon ==
  (/\ fetchResp.kind = "Ok"
   /\ \A i \in 1..Len(Doc) :
        /\ Doc[i].PMID # <<>>
        /\ \A j \in 1..Len(Doc[i].Authors) :
             Doc[i].Authors[j].Affiliation # << <<>> >>)
    => /\ pc # "crashed"
       /\ \A i \in 1..Len(Doc) :
            QualifyingAuthors(Doc[i]) # {} =>
              LET text == TextOf(Doc[i].Authors[LastOf(QualifyingAuthors(Doc[i]))])
              IN /\ Contains(Lower(text), EmailColon)
                 /\ papers[i].CorrespondingAuthorEmail =
                      Strip(AfterFirstEmailColon(text))

(* C9: the email of a Record is the value extracted from the last author   *)
(* of its own article that qualifies as corresponding author, and the      *)
(* default when none does: nothing carries over from an earlier article.   *)
C9_LastCorrespondingAuthorWins ==
  Parsed =>
    \A i \in 1..Len(Doc) :
      LET q == QualifyingAuthors(Doc[i])
      IN papers[i].CorrespondingAuthorEmail =
           IF q = {} THEN NA
           ELSE Strip(UpToNextEmailColon(
                  AfterFirstEmailColon(TextOf(Doc[i].Authors[LastOf(q)]))))

C9_Witness ==
  /\ Parsed
  /\ Len(papers) = 2
  /\ QualifyingAuthors(Doc[1]) # {}
  /\ QualifyingAuthors(Doc[2]) = {}
  /\ papers[1].CorrespondingAuthorEmail # NA
  /\ papers[2].CorrespondingAuthorEmail = NA

(* C10: a run sends exactly one search request and at most one fetch       *)
(* request -- the second request of the run, carrying all identifiers of a *)
(* non-empty id list joined by commas; nothing is sent again after a       *)
(* failure; and once both calls have returned the run reaches the sink or  *)
(* display step and terminates.                                            *)
C10_Requests ==
  /\ SearchCount <= 1
  /\ pc \notin {"start", "search"} => SearchCount = 1
  /\ FetchCount <= 1
  /\ \A i \in 1..Len(requests) :
       /\ i = 1 => requests[i].url = SearchUrl
       /\ requests[i].url = FetchUrl =>
            /\ i = 2
            /\ searchResp.kind = "Ok"
            /\ paper_ids # <<>>
            /\ requests[i].id = Join(paper_ids, Comma)
  /\ pc = "done" => Len(requests) = 1 + (IF paper_ids = <<>> THEN 0 ELSE 1)

C10_OneRequestEachAndTerminates ==
  /\ []C10_Requests
  /\ (pc = "sink") ~> (pc = "done")
  /\ [](pc = "done" => [](pc = "done"))

C10_Witness ==
  /\ pc = "done"
  /\ Len(requests) = 2
  /\ requests[2].id = <<"2", ",", "1">>
  /\ fetchResp.kind = "HTTPError"

====
